---------------------------- MODULE Spec2Model ----------------------------
(***************************************************************************)
(* Movie catalog API: the controller handlers of src/unnamed/part_001 over *)
(* the Movie schema of src/middleware/errorHandler.js (lines 72-483).      *)
(*                                                                         *)
(* Strings are sequences of one-character strings.  The collection is a    *)
(* function from identifiers to documents; a document is a function from   *)
(* path names to values.  Every handler is split at its awaited database   *)
(* calls: one action per database call, so that requests interleave the    *)
(* way the event loop interleaves them.                                    *)
(***************************************************************************)
EXTENDS Integers, Sequences, FiniteSets, TLC

VARIABLES
    db,               \* the movies collection: identifier -> stored document
    reqs,             \* the requests in flight and their last responses
    pending,          \* saves issued and not awaited (view increments)
    now,              \* the clock read by new Date()
    started,          \* number of requests received so far
    undefinedAsNull   \* how the driver sends a filter path set to undefined

vars == <<db, reqs, pending, now, started, undefinedAsNull>>

(***************************************************************************)
(* Bounds of the model.                                                    *)
(***************************************************************************)
MaxRecords == 2      \* documents the collection may hold
MaxCount == 2        \* cap of the engagement counters
MaxClock == 2        \* last instant of the clock
MaxRequests == 4     \* requests received in one behaviour
NumReqs == 2         \* requests in flight at once under ConcSpec

Ids == 1..MaxRecords
Reqs == 1..NumReqs

Null == <<>>

(***************************************************************************)
(* Characters and strings.                                                 *)
(***************************************************************************)
Lower(c) == CASE c = "A" -> "a" [] c = "B" -> "b" [] OTHER -> c

Upper(c) == CASE c = "a" -> "A" [] c = "b" -> "B" [] OTHER -> c

\* \w of a JavaScript regular expression
IsWordChar(c) == c \in {"a", "b", "A", "B", "_", "0", "1", "2", "5", "9"}

\* \S is every character but white space
IsSpace(c) == c = " "

LowerStr(s) == [i \in 1..Len(s) |-> Lower(s[i])]

(***************************************************************************)
(* title.replace(/\w\S*/g, txt => txt.charAt(0).toUpperCase() +            *)
(*                                txt.substr(1).toLowerCase())             *)
(* A match starts at a word character and runs to the next white space.    *)
(***************************************************************************)
RECURSIVE CapFrom(_, _, _)
CapFrom(s, i, inWord) ==
    IF i > Len(s) THEN <<>>
    ELSE IF inWord
         THEN IF IsSpace(s[i])
              THEN <<s[i]>> \o CapFrom(s, i + 1, FALSE)
              ELSE <<Lower(s[i])>> \o CapFrom(s, i + 1, TRUE)
         ELSE IF IsWordChar(s[i])
              THEN <<Upper(s[i])>> \o CapFrom(s, i + 1, TRUE)
              ELSE <<s[i]>> \o CapFrom(s, i + 1, FALSE)

Capitalize(s) == CapFrom(s, 1, FALSE)

(***************************************************************************)
(* new RegExp(source, 'i'): literals, the wildcard '.', and the postfix    *)
(* quantifiers '?' and '*' (a '?' after a quantifier makes it lazy, which  *)
(* does not change what matches).  A quantifier with nothing to repeat is  *)
(* a SyntaxError.                                                          *)
(***************************************************************************)
Quantifiers == {"?", "*"}

SyntaxErr == [ch |-> "", q |-> "error"]

RECURSIVE Atoms(_)
Atoms(p) ==
    IF p = <<>> THEN <<>>
    ELSE IF p[1] \in Quantifiers THEN <<SyntaxErr>>
    ELSE IF Len(p) >= 2 /\ p[2] \in Quantifiers
         THEN LET skip == IF Len(p) >= 3 /\ p[3] = "?" THEN 4 ELSE 3
              IN  <<[ch |-> p[1], q |-> p[2]]>> \o Atoms(SubSeq(p, skip, Len(p)))
         ELSE <<[ch |-> p[1], q |-> "1"]>> \o Atoms(Tail(p))

RegExpThrows(p) == \E i \in 1..Len(Atoms(p)) : Atoms(p)[i] = SyntaxErr

CharMatches(pc, c) == pc = "." \/ Lower(pc) = Lower(c)

RECURSIVE MatchAtoms(_, _)
MatchAtoms(as, s) ==
    IF as = <<>> THEN s = <<>>
    ELSE LET a == as[1]
             hit == s # <<>> /\ CharMatches(a.ch, s[1])
         IN  CASE a.q = "1" -> hit /\ MatchAtoms(Tail(as), Tail(s))
               [] a.q = "?" -> \/ MatchAtoms(Tail(as), s)
                               \/ hit /\ MatchAtoms(Tail(as), Tail(s))
               [] a.q = "*" -> \/ MatchAtoms(Tail(as), s)
                               \/ hit /\ MatchAtoms(as, Tail(s))
               [] OTHER -> FALSE

\* new RegExp(`^${p}$`, 'i').test(s)
RegExpAnchored(p, s) == MatchAtoms(Atoms(p), s)

\* { $regex: p, $options: 'i' } on the string s: p matches somewhere in s
RegExpSearch(p, s) ==
    LET atoms == Atoms(p)
    IN  \E i \in 1..(Len(s) + 1) : \E j \in (i - 1)..Len(s) :
            MatchAtoms(atoms, SubSeq(s, i, j))

(***************************************************************************)
(* The Movie schema.                                                       *)
(***************************************************************************)
StatusEnum == {"active", "inactive", "pending", "deleted"}

SourceEnum == {"mflix", "omdb", "tmdb", "user", "admin"}

\* the paths of the schema; strict mode drops every other path of a
\* constructor argument or of an update
SchemaPaths == {"title", "plot", "genres", "year", "runtime", "director", "cast",
                "rating", "votes", "favorites", "watchlistCount", "viewCount",
                "source", "status", "createdAt", "updatedAt"}

Restrict(f, S) == [k \in (DOMAIN f) \cap S |-> f[k]]

\* b's paths laid over a's
Merge(a, b) == [k \in (DOMAIN a) \cup (DOMAIN b) |->
                    IF k \in DOMAIN b THEN b[k] ELSE a[k]]

Has(f, k) == k \in DOMAIN f

\* the validators of the schema, on the paths that are present
ValidPaths(d) ==
    /\ Has(d, "favorites") => d.favorites >= 0
    /\ Has(d, "watchlistCount") => d.watchlistCount >= 0
    /\ Has(d, "viewCount") => d.viewCount >= 0
    /\ Has(d, "status") => d.status \in StatusEnum
    /\ Has(d, "source") => d.source \in SourceEnum
    /\ Has(d, "title") => Len(d.title) >= 1
    /\ Has(d, "rating") => d.rating >= 0 /\ d.rating <= 10000

\* a read query that lacks the fragment { status: 'active' }
IsActiveOrDeleted(d) == d.status \in StatusEnum

\* the fragment { status: 'active' } of the read queries
IsActive(d) == d.status = "active"

\* the defaults a new document gets
Defaults == [genres |-> <<>>, cast |-> <<>>,
             favorites |-> 0, watchlistCount |-> 0, viewCount |-> 0,
             source |-> "user", status |-> "active"]

\* Math.round(rating * 10) / 10, on thousandths
RoundRating(x) == ((x + 50) \div 100) * 100

\* the toJSON transform, applied when res.json serializes a document
ToJSON(d) ==
    IF Has(d, "rating") /\ d.rating # 0
    THEN [d EXCEPT !.rating = RoundRating(@)]
    ELSE d

\* a plain object of a .lean() query is serialized as it is stored
Lean(d) == d

\* movieSchema.pre('save'): capitalize title and director
PreSave(d) ==
    LET t == IF Has(d, "title") /\ d.title # <<>>
             THEN [title |-> Capitalize(d.title)] ELSE Null
        r == IF Has(d, "director") /\ d.director # <<>>
             THEN [director |-> Capitalize(d.director)] ELSE Null
    IN  Merge(Merge(d, t), r)


(***************************************************************************)
(* Inputs of the requests.                                                 *)
(***************************************************************************)
Director == <<"b">>

Drama == <<"D", "r", "a", "m", "a">>

Movie(t, y) == [title |-> t, year |-> y, director |-> Director, genres |-> <<Drama>>]

\* a body with the required title and no director, no genres
Bare(t, y) == [title |-> t, year |-> y]

\* imdb.rating is held in thousandths: 7666 is 7.666
CreateBodies ==
    {Movie(<<"a">>, 2000), Bare(<<"a">>, 2001),
     Merge(Bare(<<"b">>, 2000), [rating |-> 7666]),
     Movie(<<"a", "?">>, 2000),
     Merge(Movie(<<"b">>, 2001), [favorites |-> -1])}

UpdateBodies ==
    {[title |-> <<"a">>], [title |-> <<"b">>], [year |-> 2000], [year |-> 2001],
     [title |-> <<"a">>, year |-> 2000], [title |-> <<"a", "?">>, year |-> 2000],
     [status |-> "active"], [viewCount |-> -1]}

ImportBodies ==
    {[overwrite |-> FALSE],
     [source |-> "user"],
     [source |-> "user", movies |-> <<Movie(<<"a">>, 2000), Movie(<<"b">>, 2001)>>],
     [source |-> "user", movies |-> <<Movie(<<"?">>, 2000)>>],
     [source |-> "user", overwrite |-> TRUE,
      movies |-> <<Merge(Movie(<<"a">>, 2000), [favorites |-> -1])>>],
     [source |-> "user", overwrite |-> TRUE,
      movies |-> <<Movie(<<"a">>, 2000), Movie(<<"b">>, 2001)>>],
     [source |-> "user", movies |-> <<Movie(<<"a", "?">>, 2000), Null>>],
     [overwrite |-> TRUE]}

(***************************************************************************)
(* Requests.                                                               *)
(***************************************************************************)
\* n is the serial number of the request, pc the database call it waits for
Idle == [n |-> 0, op |-> "none", pc |-> "idle", id |-> 0, body |-> Null,
         doc |-> Null, loc |-> Null, code |-> 0, out |-> Null]

Free(r) == reqs[r].pc \in {"idle", "done"} /\ started < MaxRequests

\* a request that goes on after its first database call, with its locals
Begin(r, op, pc, id, body, doc, loc) ==
    /\ reqs' = [reqs EXCEPT ![r] = [Idle EXCEPT !.n = started + 1,
                                                !.op = op, !.pc = pc, !.id = id,
                                                !.body = body, !.doc = doc,
                                                !.loc = loc]]
    /\ started' = started + 1

\* a request answered at its first database call
Answer(r, op, id, body, code, out) ==
    /\ reqs' = [reqs EXCEPT ![r] = [Idle EXCEPT !.n = started + 1,
                                                !.op = op, !.pc = "done", !.id = id,
                                                !.body = body,
                                                !.code = code, !.out = out]]
    /\ started' = started + 1

\* res.status(code).json(out): the request is over, its locals are gone
Respond(r, code, out) ==
    reqs' = [reqs EXCEPT ![r] = [Idle EXCEPT !.n = reqs[r].n,
                                             !.op = reqs[r].op, !.pc = "done",
                                             !.id = reqs[r].id,
                                             !.body = reqs[r].body,
                                             !.code = code, !.out = out]]

At(r, op, pc) == reqs[r].op = op /\ reqs[r].pc = pc

(***************************************************************************)
(* Storage operations.                                                     *)
(***************************************************************************)
Stored(id) == id \in DOMAIN db

\* Movie.findById(id)
FindById(id) == IF Stored(id) THEN db[id] ELSE Null

\* a filter path set to undefined: the driver either sends it as null, which
\* matches the documents without the path, or leaves it out of the filter
MatchesUndefined(d, path) == IF undefinedAsNull THEN ~Has(d, path) ELSE TRUE

\* the filter { title: /^title$/i, year: year, status: { $ne: 'deleted' } },
\* with _id: { $ne: except } when except is an identifier; f holds the title
\* pattern and, unless it is undefined, the year
Duplicates(f, except) ==
    {i \in DOMAIN db :
        /\ i # except
        /\ RegExpAnchored(f.title, db[i].title)
        /\ IF Has(f, "year") THEN Has(db[i], "year") /\ db[i].year = f.year
                             ELSE MatchesUndefined(db[i], "year")
        /\ db[i].status # "deleted"}

\* Model.findByIdAndUpdate(id, update): strict mode keeps the schema's paths,
\* the timestamps option stamps updatedAt
CastUpdate(update) == Restrict(Merge([updatedAt |-> now], update), SchemaPaths)

WriteUpdate(id, update) == db' = [db EXCEPT ![id] = Merge(db[id], CastUpdate(update))]

\* new Movie(data): strict mode and the schema's defaults
NewMovie(data) == Merge(Defaults, Restrict(data, SchemaPaths))

NewId == Cardinality(DOMAIN db) + 1

\* document.save() of a new document: pre-save hook, timestamps, insert
Insert(d) ==
    db' = [i \in (DOMAIN db) \cup {NewId} |->
              IF i = NewId
              THEN Merge(PreSave(d), [createdAt |-> now, updatedAt |-> now])
              ELSE db[i]]

\* document.save() of a loaded document: the $set of the paths that differ
\* from the document as loaded, with updatedAt, or nothing when none differs
SaveDelta(loaded, local) ==
    LET d == PreSave(local)
        modified == {k \in DOMAIN d : ~Has(loaded, k) \/ loaded[k] # d[k]}
    IN  IF modified = {} THEN Null
        ELSE Merge(Restrict(d, modified), [updatedAt |-> now])

ApplyDelta(id, delta) == db' = [db EXCEPT ![id] = Merge(db[id], delta)]

(***************************************************************************)
(* createMovie                                                             *)
(***************************************************************************)
MovieData(body) == Merge(body, [source |-> "user"])

\* the request arrives and its duplicate check is answered
CreateFindOne(r) ==
    /\ Free(r)
    /\ Cardinality(DOMAIN db) < MaxRecords
    /\ \E b \in CreateBodies :
          LET data == MovieData(b)
          IN  IF RegExpThrows(data.title)
              THEN Answer(r, "createMovie", 0, b, 500, Null)
              ELSE IF Duplicates(Restrict(data, {"title", "year"}), 0) # {}
                   THEN Answer(r, "createMovie", 0, b, 409, Null)
                   ELSE Begin(r, "createMovie", "save", 0, b, Null, Null)
    /\ UNCHANGED <<db, pending, now, undefinedAsNull>>

CreateSave(r) ==
    /\ At(r, "createMovie", "save")
    /\ LET movie == NewMovie(MovieData(reqs[r].body))
       IN  IF ~ValidPaths(movie)
           THEN Respond(r, 400, Null) /\ UNCHANGED db
           ELSE /\ Cardinality(DOMAIN db) < MaxRecords
                /\ Insert(movie)
                /\ Respond(r, 201, [id |-> NewId, movie |-> ToJSON(db'[NewId])])
    /\ UNCHANGED <<pending, now, started, undefinedAsNull>>

(***************************************************************************)
(* updateMovie                                                             *)
(***************************************************************************)
\* findByIdAndUpdate(id, { ...updateData, updatedAt }, { new, runValidators })
\* and the response that follows it
UpdateApply(r, n, id, body) ==
    LET update == CastUpdate(body)
        answer(code, out) ==
            reqs' = [reqs EXCEPT ![r] = [Idle EXCEPT !.n = n, !.op = "updateMovie",
                                                     !.pc = "done", !.id = id,
                                                     !.body = body,
                                                     !.code = code, !.out = out]]
    IN  IF ~ValidPaths(update) THEN answer(400, Null) /\ UNCHANGED db
        ELSE IF ~Stored(id) THEN answer(404, Null) /\ UNCHANGED db
        ELSE /\ WriteUpdate(id, body)
             /\ IF db'[id].status = "deleted"
                THEN answer(404, Null)
                ELSE answer(200, [id |-> id, movie |-> ToJSON(db'[id])])

\* a request with a title or a year arrives: the duplicate check is answered
UpdateFindOne(r) ==
    /\ Free(r)
    /\ \E id \in Ids, b \in UpdateBodies :
          /\ Has(b, "title") \/ Has(b, "year")
          /\ LET title == IF Has(b, "title") THEN b.title ELSE <<".", "*">>
                 f == Merge(Restrict(b, {"year"}), [title |-> title])
             IN  IF RegExpThrows(title)
                 THEN Answer(r, "updateMovie", id, b, 500, Null)
                 ELSE IF Duplicates(f, id) # {}
                      THEN Answer(r, "updateMovie", id, b, 409, Null)
                      ELSE Begin(r, "updateMovie", "update", id, b, Null, Null)
    /\ UNCHANGED <<db, pending, now, undefinedAsNull>>

\* the write after the duplicate check
UpdateWrite(r) ==
    /\ At(r, "updateMovie", "update")
    /\ UpdateApply(r, reqs[r].n, reqs[r].id, reqs[r].body)
    /\ UNCHANGED <<pending, now, started, undefinedAsNull>>

\* a request with neither title nor year: the write is its first database call
UpdateOnly(r) ==
    /\ Free(r)
    /\ \E id \in Ids, b \in UpdateBodies :
          /\ ~(Has(b, "title") \/ Has(b, "year"))
          /\ UpdateApply(r, started + 1, id, b)
    /\ started' = started + 1
    /\ UNCHANGED <<pending, now, undefinedAsNull>>

(***************************************************************************)
(* deleteMovie                                                             *)
(***************************************************************************)
DeleteMovie(r) ==
    /\ Free(r)
    /\ \E id \in Ids :
          IF ~Stored(id)
          THEN Answer(r, "deleteMovie", id, Null, 404, Null) /\ UNCHANGED db
          ELSE /\ WriteUpdate(id, [status |-> "deleted", deletedAt |-> now])
               /\ Answer(r, "deleteMovie", id, Null, 200, [id |-> id])
    /\ UNCHANGED <<pending, now, undefinedAsNull>>

(***************************************************************************)
(* getMovieById                                                            *)
(***************************************************************************)
RelatedLimit == 6

Count(d, path) == IF Has(d, path) THEN d[path] ELSE 0

Elems(seq) == {seq[i] : i \in 1..Len(seq)}

\* { _id: { $ne: id }, status: 'active',
\*   $or: [{ genres: { $in: movie.genres } }, { director: movie.director }] }
Related(id, movie) ==
    {i \in DOMAIN db :
        /\ i # id
        /\ IsActive(db[i])
        /\ \/ Elems(db[i].genres) \cap Elems(movie.genres) # {}
           \/ IF Has(movie, "director")
              THEN Has(db[i], "director") /\ db[i].director = movie.director
              ELSE MatchesUndefined(db[i], "director")}

\* .limit(n) on an unsorted find: any n of the matching documents
Limited(S, n) ==
    {T \in SUBSET S : Cardinality(T) = IF Cardinality(S) < n THEN Cardinality(S) ELSE n}

\* movieSchema.methods.incrementView, before the save
IncrementView(d) == Merge(d, [viewCount |-> Count(d, "viewCount") + 1])

\* getMovieById with the save of the view increment awaited and not caught:
\* the handler goes on when the save is stored and fails when it is rejected
GetByIdFindAwait(r) ==
    /\ Free(r)
    /\ \E id \in Ids :
          LET movie == FindById(id)
          IN  IF movie = Null \/ movie.status = "deleted"
              THEN Answer(r, "getMovieById", id, Null, 404, Null) /\ UNCHANGED db
              ELSE LET viewed == IncrementView(movie)
                   IN  /\ viewed.viewCount <= MaxCount
                       /\ \/ /\ ApplyDelta(id, SaveDelta(movie, viewed))
                             /\ Begin(r, "getMovieById", "related", id, Null, viewed, Null)
                          \/ /\ Answer(r, "getMovieById", id, Null, 500, Null)
                             /\ UNCHANGED db
    /\ UNCHANGED <<pending, now, undefinedAsNull>>

\* the request arrives and findById is answered; the save of the view
\* increment is issued and not awaited
GetByIdFind(r) ==
    /\ Free(r)
    /\ \E id \in Ids :
          LET movie == FindById(id)
          IN  IF movie = Null \/ movie.status = "deleted"
              THEN Answer(r, "getMovieById", id, Null, 404, Null) /\ UNCHANGED pending
              ELSE LET viewed == IncrementView(movie)
                   IN  /\ viewed.viewCount <= MaxCount
                       /\ pending' = pending \cup
                              {[id |-> id, set |-> SaveDelta(movie, viewed)]}
                       /\ Begin(r, "getMovieById", "related", id, Null, viewed, Null)
    /\ UNCHANGED <<db, now, undefinedAsNull>>

GetByIdRelated(r) ==
    /\ At(r, "getMovieById", "related")
    /\ \E rel \in Limited(Related(reqs[r].id, reqs[r].doc), RelatedLimit) :
          Respond(r, 200, [movie |-> ToJSON(reqs[r].doc), relatedMovies |-> rel])
    /\ UNCHANGED <<db, pending, now, started, undefinedAsNull>>

\* the save of a view increment reaches the database
FlushView ==
    /\ \E p \in pending :
          /\ ApplyDelta(p.id, p.set)
          /\ pending' = pending \ {p}
    /\ UNCHANGED <<reqs, now, started, undefinedAsNull>>

\* the save of a view increment is rejected: the catch logs it, nothing is
\* stored
FailView ==
    /\ \E p \in pending : pending' = pending \ {p}
    /\ UNCHANGED <<db, reqs, now, started, undefinedAsNull>>

(***************************************************************************)
(* addToFavorites, removeFromFavorites                                     *)
(***************************************************************************)
Max(a, b) == IF a > b THEN a ELSE b

Min(a, b) == IF a < b THEN a ELSE b

\* addToFavorites with a step of two
AddFavoriteByTwo(d) == Merge(d, [favorites |-> Count(d, "favorites") + 2])

\* movieSchema.methods.addToFavorites, before the save
AddFavorite(d) == Merge(d, [favorites |-> Count(d, "favorites") + 1])

\* removeFromFavorites with Math.min in the place of Math.max
RemoveFavoriteMin(d) == Merge(d, [favorites |-> Min(Count(d, "favorites") - 1, 0)])

\* movieSchema.methods.removeFromFavorites, before the save
RemoveFavorite(d) == Merge(d, [favorites |-> Max(Count(d, "favorites") - 1, 0)])

FavoriteOps == {"addToFavorites", "removeFromFavorites"}

\* the favorite requests with the test of the status left out of the
\* not-found condition
FavoriteFindNoStatus(r) ==
    /\ Free(r)
    /\ \E id \in Ids, op \in FavoriteOps :
          LET movie == FindById(id)
          IN  IF movie = Null
              THEN Answer(r, op, id, Null, 404, Null)
              ELSE /\ op = "addToFavorites" => Count(movie, "favorites") < MaxCount
                   /\ Begin(r, op, "save", id, Null, movie, Null)
    /\ UNCHANGED <<db, pending, now, undefinedAsNull>>

\* the request arrives and findById is answered
FavoriteFind(r) ==
    /\ Free(r)
    /\ \E id \in Ids, op \in FavoriteOps :
          LET movie == FindById(id)
          IN  IF movie = Null \/ movie.status = "deleted"
              THEN Answer(r, op, id, Null, 404, Null)
              ELSE /\ op = "addToFavorites" => Count(movie, "favorites") < MaxCount
                   /\ Begin(r, op, "save", id, Null, movie, Null)
    /\ UNCHANGED <<db, pending, now, undefinedAsNull>>

FavoriteSave(r) ==
    /\ reqs[r].op \in FavoriteOps
    /\ reqs[r].pc = "save"
    /\ LET movie == reqs[r].doc
           local == IF reqs[r].op = "addToFavorites"
                    THEN AddFavorite(movie) ELSE RemoveFavorite(movie)
           delta == SaveDelta(movie, local)
       IN  IF ~ValidPaths(Restrict(local, {"favorites"}))
           THEN Respond(r, 400, Null) /\ UNCHANGED db
           ELSE /\ IF delta = Null THEN UNCHANGED db
                                   ELSE ApplyDelta(reqs[r].id, delta)
                /\ Respond(r, 200, [movieId |-> reqs[r].id,
                                    favorites |-> local.favorites,
                                    was |-> Count(movie, "favorites")])
    /\ UNCHANGED <<pending, now, started, undefinedAsNull>>

(***************************************************************************)
(* Numbers of the query string.                                            *)
(***************************************************************************)
Digits == {"0", "1", "2", "3", "4", "5", "6", "7", "8", "9"}

DigitVal(c) == CASE c = "0" -> 0 [] c = "1" -> 1 [] c = "2" -> 2 [] c = "3" -> 3
                 [] c = "4" -> 4 [] c = "5" -> 5 [] c = "6" -> 6 [] c = "7" -> 7
                 [] c = "8" -> 8 [] c = "9" -> 9

NaN == [nan |-> TRUE, v |-> 0]

Num(n) == [nan |-> FALSE, v |-> n]

\* the value of the longest prefix of digits of s from position i on, and its end
RECURSIVE DigitRun(_, _, _)
DigitRun(s, i, acc) ==
    IF i <= Len(s) /\ s[i] \in Digits
    THEN DigitRun(s, i + 1, 10 * acc + DigitVal(s[i]))
    ELSE [v |-> acc, end |-> i]

RECURSIVE SkipSpaces(_, _)
SkipSpaces(s, i) == IF i <= Len(s) /\ IsSpace(s[i]) THEN SkipSpaces(s, i + 1) ELSE i

\* parseInt(s): leading white space, an optional sign, then digits
ParseInt(s) ==
    LET i == SkipSpaces(s, 1)
        neg == i <= Len(s) /\ s[i] = "-"
        j == IF i <= Len(s) /\ s[i] \in {"-", "+"} THEN i + 1 ELSE i
        run == DigitRun(s, j, 0)
    IN  IF run.end = j THEN NaN
        ELSE Num(IF neg THEN 0 - run.v ELSE run.v)

\* Math.max(a, b), Math.min(a, b), on numbers that may be NaN
MathMax(a, b) == IF a.nan \/ b.nan THEN NaN ELSE Num(Max(a.v, b.v))

MathMin(a, b) == IF a.nan \/ b.nan THEN NaN ELSE Num(Min(a.v, b.v))

PageLimitMax == 50

\* const pageNum = Math.max(1, parseInt(page))
PageNum(page) == MathMax(Num(1), ParseInt(page))

\* limitNum without the upper clamp: Math.max(1, parseInt(limit))
LimitNumNoCap(limit) == MathMax(Num(1), ParseInt(limit))

\* const limitNum = Math.min(50, Math.max(1, parseInt(limit)))
LimitNum(limit) == MathMin(Num(PageLimitMax), MathMax(Num(1), ParseInt(limit)))

\* const skip = (pageNum - 1) * limitNum
Skip(pageNum, limitNum) ==
    IF pageNum.nan \/ limitNum.nan THEN NaN ELSE Num((pageNum.v - 1) * limitNum.v)

(***************************************************************************)
(* Sorting and paging of a find.                                           *)
(***************************************************************************)
CharCode(c) == CASE c = "?" -> 63 [] c = "A" -> 65 [] c = "B" -> 66 [] c = "D" -> 68
                 [] c = "a" -> 97 [] c = "b" -> 98 [] c = "m" -> 109 [] c = "r" -> 114
                 [] OTHER -> 32

\* -1, 0 or 1 as string a sorts before, with or after string b
RECURSIVE CompareStr(_, _)
CompareStr(a, b) ==
    IF a = <<>> /\ b = <<>> THEN 0
    ELSE IF a = <<>> THEN -1
    ELSE IF b = <<>> THEN 1
    ELSE IF CharCode(a[1]) < CharCode(b[1]) THEN -1
    ELSE IF CharCode(a[1]) > CharCode(b[1]) THEN 1
    ELSE CompareStr(Tail(a), Tail(b))

StringPaths == {"title", "director", "plot", "source", "status"}

\* the order of two documents on one path; a missing path sorts first
ComparePath(x, y, path) ==
    IF ~Has(x, path) /\ ~Has(y, path) THEN 0
    ELSE IF ~Has(x, path) THEN -1
    ELSE IF ~Has(y, path) THEN 1
    ELSE IF path \in StringPaths THEN CompareStr(x[path], y[path])
    ELSE IF x[path] < y[path] THEN -1
    ELSE IF x[path] > y[path] THEN 1
    ELSE 0

\* the order of two documents under a sort specification, a sequence of
\* [path, dir] with dir 1 ascending and -1 descending
RECURSIVE CompareDocs(_, _, _)
CompareDocs(x, y, sort) ==
    IF sort = <<>> THEN 0
    ELSE LET c == ComparePath(x, y, sort[1].path) * sort[1].dir
         IN  IF c # 0 THEN c ELSE CompareDocs(x, y, Tail(sort))

\* every order of the identifiers S that the sort specification allows over
\* the collection coll: documents that tie come in any order
RECURSIVE Sorted(_, _, _)
Sorted(coll, S, sort) ==
    IF S = {} THEN {<<>>}
    ELSE LET first == {m \in S : \A x \in S : CompareDocs(coll[x], coll[m], sort) >= 0}
         IN  UNION {{<<m>> \o rest : rest \in Sorted(coll, S \ {m}, sort)} : m \in first}

\* .skip(skip).limit(limit) of an ordered result; limit 0 is no limit
SkipLimit(seq, skip, limit) ==
    LET last == IF limit = 0 THEN Len(seq) ELSE Min(Len(seq), skip + limit)
    IN  SubSeq(seq, skip + 1, last)

By(path, dir) == [path |-> path, dir |-> dir]

(***************************************************************************)
(* getAllMovies                                                            *)
(***************************************************************************)
\* a parameter of the query string, or the default of the destructuring
Param(q, name, default) == IF Has(q, name) THEN q[name] ELSE default

\* String.prototype.trim, as far as deciding emptiness goes
RECURSIVE TrimLeft(_)
TrimLeft(s) == IF s # <<>> /\ IsSpace(s[1]) THEN TrimLeft(Tail(s)) ELSE s

\* the switch on sortBy with the vote count left out of the rating order
ListSortNoVotes(sortBy) ==
    CASE sortBy = "year" -> <<By("year", -1), By("title", 1)>>
      [] sortBy = "rating" -> <<By("rating", -1), By("title", 1)>>
      [] sortBy = "popularity" ->
            <<By("viewCount", -1), By("favorites", -1), By("title", 1)>>
      [] sortBy = "latest" -> <<By("createdAt", -1)>>
      [] sortBy = "runtime" -> <<By("runtime", -1), By("title", 1)>>
      [] sortBy = "alphabetical" -> <<By("title", 1)>>
      [] OTHER -> <<By("title", 1)>>

\* the switch on sortBy
ListSort(sortBy) ==
    CASE sortBy = "year" -> <<By("year", -1), By("title", 1)>>
      [] sortBy = "rating" -> <<By("rating", -1), By("votes", -1), By("title", 1)>>
      [] sortBy = "popularity" ->
            <<By("viewCount", -1), By("favorites", -1), By("title", 1)>>
      [] sortBy = "latest" -> <<By("createdAt", -1)>>
      [] sortBy = "runtime" -> <<By("runtime", -1), By("title", 1)>>
      [] sortBy = "alphabetical" -> <<By("title", 1)>>
      [] OTHER -> <<By("title", 1)>>

\* parseFloat(s) in thousandths: digits, then a point and up to three digits
ParseFloat(s) ==
    LET i == SkipSpaces(s, 1)
        neg == i <= Len(s) /\ s[i] = "-"
        j == IF i <= Len(s) /\ s[i] \in {"-", "+"} THEN i + 1 ELSE i
        int == DigitRun(s, j, 0)
        dot == int.end <= Len(s) /\ s[int.end] = "."
        frac == IF dot THEN DigitRun(SubSeq(s, 1, Min(Len(s), int.end + 3)),
                                    int.end + 1, 0)
                ELSE [v |-> 0, end |-> int.end + 1]
        places == frac.end - (int.end + 1)
        scale == CASE places = 0 -> 0 [] places = 1 -> 100 [] places = 2 -> 10
                   [] OTHER -> 1
        abs == int.v * 1000 + frac.v * scale
    IN  IF int.end = j /\ places = 0 THEN NaN
        ELSE Num(IF neg THEN 0 - abs ELSE abs)

\* skip(NaN) or limit(NaN): the query layer refuses the number with a
\* CastError, or passes it on and the server refuses the command
PagingErrors == {400, 500}

PagingFails(q) ==
    \/ PageNum(Param(q, "page", <<"1">>)).nan
    \/ LimitNum(Param(q, "limit", <<"1", "2">>)).nan

\* the status of the error the filters of the query string make the request
\* fail with, or 0: new RegExp(genre) throws; a NaN where the schema wants a
\* number is a CastError; the server rejects an invalid $regex
ListError(q) ==
    LET search == Param(q, "search", <<>>)
        genre == Param(q, "genre", <<>>)
        year == Param(q, "year", <<>>)
        decade == Param(q, "decade", <<>>)
        minRating == Param(q, "minRating", <<>>)
        maxRating == Param(q, "maxRating", <<>>)
    IN  IF genre # <<>> /\ RegExpThrows(genre) THEN 500
        ELSE IF \/ decade = <<>> /\ year # <<>> /\ ParseInt(year).nan
                \/ decade # <<>> /\ ParseInt(decade).nan
                \/ minRating # <<>> /\ ParseFloat(minRating).nan
                \/ maxRating # <<>> /\ ParseFloat(maxRating).nan
             THEN 400
        ELSE IF TrimLeft(search) # <<>> /\ RegExpThrows(search) THEN 500
        ELSE 0

\* query.year when the exact year is assigned after the decade range
YearMatchesYearLast(q, d) ==
    LET year == Param(q, "year", <<>>)
        decade == Param(q, "decade", <<>>)
    IN  IF year # <<>>
        THEN Has(d, "year") /\ d.year = ParseInt(year).v
        ELSE decade # <<>> =>
                /\ Has(d, "year")
                /\ d.year >= ParseInt(decade).v
                /\ d.year <= ParseInt(decade).v + 9

\* query.year: the exact year, then the decade range assigned over it
YearMatches(q, d) ==
    LET year == Param(q, "year", <<>>)
        decade == Param(q, "decade", <<>>)
    IN  IF decade # <<>>
        THEN /\ Has(d, "year")
             /\ d.year >= ParseInt(decade).v
             /\ d.year <= ParseInt(decade).v + 9
        ELSE year # <<>> => Has(d, "year") /\ d.year = ParseInt(year).v

\* the query object built from the query string, as a predicate on a document
ListMatches(q, d) ==
    LET search == Param(q, "search", <<>>)
        genre == Param(q, "genre", <<>>)
        minRating == Param(q, "minRating", <<>>)
        maxRating == Param(q, "maxRating", <<>>)
        source == Param(q, "source", "")
    IN  /\ IsActive(d)
        /\ TrimLeft(search) # <<>> =>
              \/ RegExpSearch(search, d.title)
              \/ Has(d, "plot") /\ RegExpSearch(search, d.plot)
              \/ Has(d, "director") /\ RegExpSearch(search, d.director)
              \/ \E c \in Elems(d.cast) : RegExpSearch(search, c)
              \/ \E g \in Elems(d.genres) : RegExpSearch(search, g)
        /\ genre # <<>> => \E g \in Elems(d.genres) : RegExpSearch(genre, g)
        /\ YearMatches(q, d)
        /\ minRating # <<>> => Has(d, "rating") /\ d.rating >= ParseFloat(minRating).v
        /\ maxRating # <<>> => Has(d, "rating") /\ d.rating <= ParseFloat(maxRating).v
        /\ source # "" => d.source = source

\* the pages a find with the sort, skip and limit may return
FindPage(coll, matching, sort, skip, limit) ==
    {SkipLimit(order, skip, limit) : order \in Sorted(coll, matching, sort)}

\* the imdb.rating of each record of a page as the response carries it
Ratings(coll, m) == [k \in 1..Len(m) |-> Restrict(Lean(coll[m[k]]), {"rating"})]

Ceil(a, b) == (a + b - 1) \div b

\* the pagination object with Math.floor in the place of Math.ceil
PaginationFloor(pageNum, limitNum, total) ==
    [currentPage |-> pageNum, totalPages |-> total \div limitNum,
     totalMovies |-> total, hasNext |-> pageNum < total \div limitNum,
     hasPrev |-> pageNum > 1, limit |-> limitNum]

Pagination(pageNum, limitNum, total) ==
    [currentPage |-> pageNum, totalPages |-> Ceil(total, limitNum),
     totalMovies |-> total, hasNext |-> pageNum < Ceil(total, limitNum),
     hasPrev |-> pageNum > 1, limit |-> limitNum]

Failure(code) == [code |-> code, movies |-> <<>>]

\* the responses getAllMovies may give on the collection coll
GetAllMoviesOn(coll, q) ==
    IF ListError(q) # 0 THEN {Failure(ListError(q))}
    ELSE IF PagingFails(q) THEN {Failure(code) : code \in PagingErrors}
    ELSE LET pageNum == PageNum(Param(q, "page", <<"1">>)).v
             limitNum == LimitNum(Param(q, "limit", <<"1", "2">>)).v
             skip == Skip(Num(pageNum), Num(limitNum)).v
             matching == {i \in DOMAIN coll : ListMatches(q, coll[i])}
             sort == ListSort(Param(q, "sortBy", "title"))
         IN  {[code |-> 200, movies |-> m, ratings |-> Ratings(coll, m), skip |-> skip,
               pagination |-> Pagination(pageNum, limitNum, Cardinality(matching))] :
                  m \in FindPage(coll, matching, sort, skip, limitNum)}

(***************************************************************************)
(* getMoviesByGenre                                                        *)
(***************************************************************************)
\* the switch on sortBy
GenreSort(sortBy) ==
    CASE sortBy = "year" -> <<By("year", -1), By("title", 1)>>
      [] sortBy = "rating" -> <<By("rating", -1), By("votes", -1)>>
      [] sortBy = "popularity" -> <<By("viewCount", -1), By("favorites", -1)>>
      [] sortBy = "alphabetical" -> <<By("title", 1)>>
      [] OTHER -> <<By("rating", -1), By("votes", -1)>>

\* { status: 'active', genres: { $regex: new RegExp(genre, 'i') } }
GenreMatches(genre, d) ==
    /\ IsActive(d)
    /\ \E g \in Elems(d.genres) : RegExpSearch(genre, g)

\* the responses getMoviesByGenre may give; q.genre is the route parameter
GetMoviesByGenreOn(coll, q) ==
    IF RegExpThrows(q.genre) THEN {Failure(500)}
    ELSE IF PagingFails(q) THEN {Failure(code) : code \in PagingErrors}
    ELSE LET pageNum == PageNum(Param(q, "page", <<"1">>)).v
             limitNum == LimitNum(Param(q, "limit", <<"1", "2">>)).v
             skip == Skip(Num(pageNum), Num(limitNum)).v
             matching == {i \in DOMAIN coll : GenreMatches(q.genre, coll[i])}
             sort == GenreSort(Param(q, "sortBy", "rating"))
         IN  {[code |-> 200, movies |-> m, ratings |-> Ratings(coll, m), skip |-> skip,
               pagination |-> Pagination(pageNum, limitNum, Cardinality(matching))] :
                  m \in FindPage(coll, matching, sort, skip, limitNum)}

(***************************************************************************)
(* getSearchSuggestions, getTrendingMovies, exportMovies                   *)
(***************************************************************************)
SuggestionLimit == 10

SuggestionMinLength == 2

\* the responses getSearchSuggestions may give; q.q is the text typed
GetSearchSuggestionsOn(coll, q) ==
    IF ~Has(q, "q") \/ Len(q.q) < SuggestionMinLength
    THEN {[code |-> 200, movies |-> <<>>]}
    ELSE IF RegExpThrows(q.q) THEN {Failure(500)}
    ELSE LET matching == {i \in DOMAIN coll : /\ IsActive(coll[i])
                                              /\ RegExpSearch(q.q, coll[i].title)}
         IN  {[code |-> 200, movies |-> m] :
                 m \in FindPage(coll, matching, <<By("viewCount", -1), By("title", 1)>>,
                                0, SuggestionLimit)}

\* the length of the period in days, the unit of the clock; 0 is no window
PeriodDays(period) ==
    CASE period = "day" -> 1 [] period = "week" -> 7 [] period = "month" -> 30
      [] OTHER -> 0

\* the responses getTrendingMovies may give at the instant t
GetTrendingMoviesOn(coll, q, t) ==
    LET period == Param(q, "period", "week")
        limit == ParseInt(Param(q, "limit", <<"1", "0">>))
        matching == {i \in DOMAIN coll :
                        /\ IsActive(coll[i])
                        /\ PeriodDays(period) # 0 =>
                              coll[i].updatedAt >= t - PeriodDays(period)}
    IN  IF limit.nan THEN {Failure(code) : code \in PagingErrors}
        ELSE {[code |-> 200, movies |-> m] :
                 m \in FindPage(coll, matching,
                                <<By("viewCount", -1), By("favorites", -1),
                                  By("rating", -1)>>,
                                0, IF limit.v < 0 THEN 0 - limit.v ELSE limit.v)}

\* exportMovies with the test of includeDeleted for truth in the place of the
\* comparison with 'true'
ExportMoviesOnTruthy(coll, q) ==
    LET all == Param(q, "includeDeleted", <<>>) # <<>>
        matching == {i \in DOMAIN coll : all \/ IsActive(coll[i])}
    IN  {[code |-> 200, movies |-> m] :
            m \in FindPage(coll, matching, <<By("title", 1)>>, 0, 0)}

\* the responses exportMovies may give, in either format
ExportMoviesOn(coll, q) ==
    LET all == Param(q, "includeDeleted", <<>>) = <<"t", "r", "u", "e">>
        matching == {i \in DOMAIN coll : all \/ IsActive(coll[i])}
    IN  {[code |-> 200, movies |-> m] :
            m \in FindPage(coll, matching, <<By("title", 1)>>, 0, 0)}

(***************************************************************************)
(* The read requests: one database round each.                             *)
(***************************************************************************)
ListQueries ==
    {Null,
     [search |-> <<"a">>, sortBy |-> "popularity"],
     [genre |-> <<"d", "r">>, year |-> <<"2", "0", "0", "0">>],
     [decade |-> <<"2", "0", "0", "0">>, page |-> <<"2">>, limit |-> <<"1">>,
      sortBy |-> "year"]}

GenreQueries ==
    {[genre |-> <<"d", "r", "a", "m", "a">>],
     [genre |-> <<"d">>, sortBy |-> "popularity", limit |-> <<"1">>]}

SuggestionQueries == {[q |-> <<"a">>], [q |-> <<"a", ".", "*">>]}

TrendingQueries == {Null, [period |-> "day", limit |-> <<"1">>]}

ExportQueries == {Null, [includeDeleted |-> <<"t", "r", "u", "e">>]}

\* the request arrives with the query string q and is answered
Reply(r, op, q, res) ==
    /\ reqs' = [reqs EXCEPT ![r] = [Idle EXCEPT !.n = started + 1,
                                                !.op = op, !.pc = "done", !.body = q,
                                                !.code = res.code, !.out = res]]
    /\ started' = started + 1

GetAllMoviesOf(r, queries) ==
    /\ Free(r)
    /\ \E q \in queries : \E res \in GetAllMoviesOn(db, q) :
          Reply(r, "getAllMovies", q, res)
    /\ UNCHANGED <<db, pending, now, undefinedAsNull>>

GetAllMovies(r) == GetAllMoviesOf(r, ListQueries)

GetMoviesByGenreOf(r, queries) ==
    /\ Free(r)
    /\ \E q \in queries : \E res \in GetMoviesByGenreOn(db, q) :
          Reply(r, "getMoviesByGenre", q, res)
    /\ UNCHANGED <<db, pending, now, undefinedAsNull>>

GetMoviesByGenre(r) == GetMoviesByGenreOf(r, GenreQueries)

GetSearchSuggestions(r) ==
    /\ Free(r)
    /\ \E q \in SuggestionQueries : \E res \in GetSearchSuggestionsOn(db, q) :
          Reply(r, "getSearchSuggestions", q, res)
    /\ UNCHANGED <<db, pending, now, undefinedAsNull>>

GetTrendingMovies(r) ==
    /\ Free(r)
    /\ \E q \in TrendingQueries : \E res \in GetTrendingMoviesOn(db, q, now) :
          Reply(r, "getTrendingMovies", q, res)
    /\ UNCHANGED <<db, pending, now, undefinedAsNull>>

ExportMoviesOf(r, queries) ==
    /\ Free(r)
    /\ \E q \in queries : \E res \in ExportMoviesOn(db, q) :
          Reply(r, "exportMovies", q, res)
    /\ UNCHANGED <<db, pending, now, undefinedAsNull>>

ExportMovies(r) == ExportMoviesOf(r, ExportQueries)

(***************************************************************************)
(* bulkImportMovies                                                        *)
(***************************************************************************)
ImportSource(b) == IF Has(b, "source") THEN b.source ELSE "sample"

ImportOverwrite(b) == IF Has(b, "overwrite") THEN b.overwrite ELSE FALSE

NoResults == [imported |-> 0, skipped |-> 0, errors |-> 0, errorDetails |-> <<>>]

Imported(res) == [res EXCEPT !.imported = @ + 1]

Skipped(res) == [res EXCEPT !.skipped = @ + 1]

\* the catch block of the loop
Errored(res, item, message) ==
    [res EXCEPT !.errors = @ + 1,
                !.errorDetails = Append(@, [title |-> item.title, error |-> message])]

\* the end of one iteration: the next candidate, or the response after the last
ImportNext(r, res) ==
    LET l == reqs[r].loc
    IN  IF l.idx = Len(l.items)
        THEN Respond(r, 200, res)
        ELSE reqs' = [reqs EXCEPT ![r].pc = "findOne",
                                  ![r].loc = [l EXCEPT !.idx = @ + 1, !.results = res,
                                                       !.existing = 0]]

\* SampleMovie.find({}).lean(): the SampleMovie model is bound to the
\* collection 'movies', the collection of the Movie model
SampleData == [i \in 1..Cardinality(DOMAIN db) |-> Merge(db[i], [_id |-> i])]

\* the request arrives; with source 'sample' the candidates are read from the
\* SampleMovie collection, otherwise they are the movies of the body
ImportLoad(r) ==
    /\ Free(r)
    /\ \E b \in ImportBodies :
          IF ImportSource(b) # "sample" /\ ~Has(b, "movies")
          THEN Answer(r, "bulkImportMovies", 0, b, 400, Null)
          ELSE LET items == IF ImportSource(b) = "sample" THEN SampleData ELSE b.movies
               IN  IF Len(items) = 0
                   THEN Answer(r, "bulkImportMovies", 0, b, 400, Null)
                   ELSE Begin(r, "bulkImportMovies", "findOne", 0, b, Null,
                              [items |-> items, idx |-> 1,
                               results |-> NoResults, existing |-> 0])
    /\ UNCHANGED <<db, pending, now, undefinedAsNull>>

ImportFindOne(r) ==
    /\ At(r, "bulkImportMovies", "findOne")
    /\ LET l == reqs[r].loc
           item == l.items[l.idx]
           dups == Duplicates(Restrict(item, {"title", "year"}), 0)
       IN  IF item = Null
           \* movieData.title throws in the try block and again in the catch
           \* block: the error leaves the loop
           THEN Respond(r, 500, Null)
           ELSE IF RegExpThrows(item.title)
           THEN ImportNext(r, Errored(l.results, item, "SyntaxError"))
           ELSE IF dups = {}
                THEN reqs' = [reqs EXCEPT ![r].pc = "write"]
                ELSE IF ~ImportOverwrite(reqs[r].body)
                     THEN ImportNext(r, Skipped(l.results))
                     ELSE \E e \in dups :
                             reqs' = [reqs EXCEPT ![r].pc = "write",
                                                  ![r].loc.existing = e]
    /\ UNCHANGED <<db, pending, now, started, undefinedAsNull>>

ImportWrite(r) ==
    /\ At(r, "bulkImportMovies", "write")
    /\ LET l == reqs[r].loc
           item == l.items[l.idx]
           source == ImportSource(reqs[r].body)
       IN  IF l.existing # 0
           THEN \/ /\ WriteUpdate(l.existing, Merge(item, [source |-> source]))
                   /\ ImportNext(r, Imported(l.results))
                \* an update that names the _id of another document is
                \* written without the _id or refused by the server
                \/ /\ Has(item, "_id") /\ item._id # l.existing
                   /\ ImportNext(r, Errored(l.results, item, "MongoServerError"))
                   /\ UNCHANGED db
           ELSE LET movie == NewMovie(Merge(item, [source |-> source,
                                                   status |-> "active"]))
                IN  IF ~ValidPaths(movie)
                    THEN /\ ImportNext(r, Errored(l.results, item, "ValidationError"))
                         /\ UNCHANGED db
                    ELSE /\ Cardinality(DOMAIN db) < MaxRecords
                         /\ Insert(movie)
                         /\ ImportNext(r, Imported(l.results))
    /\ UNCHANGED <<pending, now, started, undefinedAsNull>>

(***************************************************************************)
(* The clock, and the specifications.                                      *)
(***************************************************************************)
Tick ==
    /\ now < MaxClock
    /\ now' = now + 1
    /\ UNCHANGED <<db, reqs, pending, started, undefinedAsNull>>

Init ==
    /\ db = <<>>
    /\ reqs = [r \in Reqs |-> Idle]
    /\ pending = {}
    /\ now = 1
    /\ started = 0
    /\ undefinedAsNull \in BOOLEAN

Step(r) ==
    \/ CreateFindOne(r) \/ CreateSave(r)
    \/ UpdateFindOne(r) \/ UpdateWrite(r) \/ UpdateOnly(r)
    \/ DeleteMovie(r)
    \/ GetByIdFind(r) \/ GetByIdRelated(r)
    \/ FavoriteFind(r) \/ FavoriteSave(r)
    \/ ImportLoad(r) \/ ImportFindOne(r) \/ ImportWrite(r)
    \/ GetAllMovies(r) \/ GetMoviesByGenre(r) \/ GetSearchSuggestions(r)
    \/ GetTrendingMovies(r) \/ ExportMovies(r)

\* one request at a time: a request arrives after the one before it was answered
Next == Tick \/ FlushView \/ FailView \/ Step(1)

Spec == Init /\ [][Next]_vars

\* requests in flight together: their database calls interleave
ConcNext == Tick \/ FlushView \/ FailView \/ \E r \in Reqs : Step(r)

ConcSpec == Init /\ [][ConcNext]_vars

(***************************************************************************)
(* Paging over a large collection: the collection holds n documents that   *)
(* differ in every sort key, and list requests arrive with a page and a    *)
(* limit.                                                                  *)
(***************************************************************************)
MaxPageDocs == 52

\* the title of the i-th document: i in binary, 'a' for 0 and 'b' for 1
RECURSIVE Binary(_, _)
Binary(i, width) ==
    IF width = 0 THEN <<>>
    ELSE Append(Binary(i \div 2, width - 1), IF i % 2 = 0 THEN "a" ELSE "b")

PageDoc(i) ==
    Merge(NewMovie(Movie(Capitalize(Binary(i, 7)), 1900 + i)),
          [rating |-> 100 * i, votes |-> i, viewCount |-> i,
           createdAt |-> 1, updatedAt |-> 1])

PageCollections == {[i \in 1..n |-> PageDoc(i)] : n \in {0, 1, 2, 3, MaxPageDocs}}

\* the text of the integer n in a query string
RECURSIVE Decimal(_)
Decimal(n) ==
    IF n < 0 THEN <<"-">> \o Decimal(-n)
    ELSE IF n < 10 THEN <<CHOOSE c \in Digits : DigitVal(c) = n>>
    ELSE Decimal(n \div 10) \o Decimal(n % 10)

PageNumbers == {-1, 0, 1, 2, 3}

PageLimits == {-5, 0, 1, 2, 49, 50, 51, 500}

PageListQueries ==
    {[page |-> Decimal(pg), limit |-> Decimal(l)] : pg \in PageNumbers, l \in PageLimits}

PageGenreQueries ==
    {[genre |-> <<"d", "r", "a", "m", "a">>, page |-> Decimal(pg), limit |-> Decimal(l)] :
        pg \in PageNumbers, l \in PageLimits}

\* a list request writes nothing, so that a second request on the same
\* collection adds no case: each behaviour serves one request
PageInit ==
    /\ db \in PageCollections
    /\ reqs = [r \in Reqs |-> Idle]
    /\ pending = {}
    /\ now = 1
    /\ started = MaxRequests - 1
    /\ undefinedAsNull \in BOOLEAN

PageNext ==
    \/ GetAllMoviesOf(1, PageListQueries)
    \/ GetMoviesByGenreOf(1, PageGenreQueries)

PageSpec == PageInit /\ [][PageNext]_vars

(***************************************************************************)
(* Filters, orders and pages over small collections whose records tie on   *)
(* some sort keys: the collection is any sequence of up to MaxQueryDocs    *)
(* distinct records of QueryDocs, and two read requests are served.        *)
(***************************************************************************)
MaxQueryDocs == 3

QueryDoc(t, y, rating, votes, views, runtime, created, status) ==
    Merge(NewMovie(Movie(t, y)),
          [rating |-> rating, votes |-> votes, viewCount |-> views,
           runtime |-> runtime, status |-> status,
           createdAt |-> created, updatedAt |-> created])

QueryDocs ==
    {QueryDoc(<<"A">>, 1985, 7000, 10, 1, 90, 1, "active"),
     QueryDoc(<<"A">>, 1990, 7000, 20, 1, 90, 1, "active"),
     QueryDoc(<<"B">>, 1999, 7000, 20, 2, 120, 2, "active"),
     QueryDoc(<<"A", "?">>, 2000, 7666, 30, 0, 100, 2, "active"),
     QueryDoc(<<"B", "a">>, 1995, 9000, 40, 3, 100, 1, "deleted"),
     QueryDoc(<<"B">>, 1998, 8000, 20, 2, 120, 2, "inactive")}

RECURSIVE Arrangements(_, _)
Arrangements(S, n) ==
    IF n = 0 THEN {<<>>}
    ELSE {<<>>} \cup UNION {{<<d>> \o rest : rest \in Arrangements(S \ {d}, n - 1)} : d \in S}

QueryCollections == Arrangements(QueryDocs, MaxQueryDocs)

QueryDecades == {1990}

QueryYears == {1985, 1990}

SortKeys == {"year", "rating", "popularity", "latest", "runtime", "alphabetical", "bogus"}

SortBodies == {Null} \cup {[sortBy |-> k] : k \in SortKeys}

BadYears == {<<"a", "b", "c">>, <<"1", "9", ".", "5">>}

BadNumbers == {<<"a", "b", "c">>, <<" ">>}

SpecialSearches == {<<"a", "?">>, <<"?">>, <<".", "*">>}

QueryListQueries ==
    {[decade |-> Decimal(d)] : d \in QueryDecades}
    \cup {[decade |-> Decimal(d), year |-> Decimal(y)] : d \in QueryDecades, y \in QueryYears}
    \cup {[year |-> Decimal(y)] : y \in QueryYears}
    \cup SortBodies
    \cup {[sortBy |-> k, limit |-> Decimal(1), page |-> Decimal(pg)] :
             k \in {"alphabetical", "latest"}, pg \in 1..MaxQueryDocs}
    \cup {[limit |-> Decimal(2), page |-> Decimal(pg)] : pg \in 1..MaxQueryDocs}
    \cup {[year |-> y] : y \in BadYears}
    \cup {[page |-> x] : x \in BadNumbers} \cup {[limit |-> x] : x \in BadNumbers}
    \cup {[search |-> x] : x \in SpecialSearches \cup {<<"a">>}}

QueryGenreQueries ==
    {[genre |-> <<"d", "r", "a", "m", "a">>, sortBy |-> "rating", limit |-> Decimal(1),
      page |-> Decimal(pg)] : pg \in 1..MaxQueryDocs}
    \cup {[genre |-> <<"d", "r", "a", "m", "a">>, page |-> x] : x \in BadNumbers}

\* the values of includeDeleted: absent, 'true', and texts that are not 'true'
IncludeDeletedTexts ==
    {<<"t", "r", "u", "e">>, <<"T", "R", "U", "E">>, <<"1">>,
     <<"f", "a", "l", "s", "e">>, <<"t", "r", "u", "e", " ">>}

QueryExportQueries == {Null} \cup {[includeDeleted |-> x] : x \in IncludeDeletedTexts}

QueryInit ==
    /\ db \in QueryCollections
    /\ reqs = [r \in Reqs |-> Idle]
    /\ pending = {}
    /\ now = MaxClock
    /\ started = MaxRequests - 2
    /\ undefinedAsNull \in BOOLEAN

QueryNext ==
    \/ GetAllMoviesOf(1, QueryListQueries)
    \/ GetMoviesByGenreOf(1, QueryGenreQueries)
    \/ ExportMoviesOf(1, QueryExportQueries)

QuerySpec == QueryInit /\ [][QueryNext]_vars

(***************************************************************************)
(* Write requests in flight together: the collection starts with no, one   *)
(* or two records, and two requests that check and then write, or read and *)
(* then save, take their database calls in any order.                      *)
(***************************************************************************)
RaceDoc(t, y) == Merge(NewMovie(Movie(t, y)), [createdAt |-> 1, updatedAt |-> 1])

RaceCollections ==
    {<<>>,
     <<RaceDoc(<<"A">>, 2000)>>,
     <<RaceDoc(<<"A">>, 2000), RaceDoc(<<"B">>, 2001)>>}

\* the requests received before the two of a behaviour
RaceStart == MaxRequests - 2

RaceInit ==
    /\ db \in RaceCollections
    /\ reqs = [r \in Reqs |-> Idle]
    /\ pending = {}
    /\ now = 1
    /\ started = RaceStart
    /\ undefinedAsNull \in BOOLEAN

RaceStep(r) ==
    \/ CreateFindOne(r) \/ CreateSave(r)
    \/ UpdateFindOne(r) \/ UpdateWrite(r)
    \/ ImportLoad(r) \/ ImportFindOne(r) \/ ImportWrite(r)
    \/ FavoriteFind(r) \/ FavoriteSave(r)

RaceNext == \E r \in Reqs : RaceStep(r)

RaceSpec == RaceInit /\ [][RaceNext]_vars

(***************************************************************************)
(* Properties.                                                             *)
(***************************************************************************)
\* request r received its response in this step
Responds(r) ==
    /\ reqs'[r].pc = "done"
    /\ reqs[r].pc # "done" \/ reqs[r].n # reqs'[r].n

\* request r arrived in this step
Arrives(r) == reqs'[r].n = started + 1 /\ started' = started + 1

Answered(r, op) == reqs[r].pc = "done" /\ reqs[r].op = op

\* the same title, letter case apart, and the same year
SameKey(a, b) == LowerStr(a.title) = LowerStr(b.title) /\ a.year = b.year

Deleted(i) == Stored(i) /\ db[i].status = "deleted"

ListingOps == {"getAllMovies", "getMoviesByGenre", "getSearchSuggestions",
               "getTrendingMovies"}

C2_DeletedIsTerminal ==
    [][\A i \in DOMAIN db : db[i].status = "deleted" => db'[i].status = "deleted"]_vars

\* C3: a createMovie request whose title and year equal, letter case apart,
\* those of a stored record that is not deleted is answered 409 and writes
\* nothing
C3_DuplicateCreateRejected ==
    [][\A r \in Reqs :
          (/\ Arrives(r)
           /\ reqs'[r].op = "createMovie"
           /\ \E i \in DOMAIN db : /\ db[i].status # "deleted"
                                   /\ SameKey(db[i], reqs'[r].body))
          => /\ reqs'[r].pc = "done"
             /\ reqs'[r].code = 409
             /\ db' = db]_vars

\* C4: a deleteMovie request for a record that is already deleted is answered
\* 404
C4_SecondDeleteNotFound ==
    [][\A r \in Reqs :
          (/\ Responds(r)
           /\ reqs'[r].op = "deleteMovie"
           /\ Deleted(reqs'[r].id))
          => reqs'[r].code = 404]_vars

\* C5: no step removes a stored identifier, a deleteMovie answered 200 leaves
\* the record with status deleted and a deletion timestamp, and an export with
\* includeDeleted=true lists every stored record
C5_SoftDeleteKeepsRecord ==
    [][/\ DOMAIN db \subseteq DOMAIN db'
       /\ \A r \in Reqs :
             /\ Responds(r) /\ reqs'[r].op = "deleteMovie" /\ reqs'[r].code = 200 =>
                   /\ db'[reqs'[r].id].status = "deleted"
                   /\ Has(db'[reqs'[r].id], "deletedAt")
             /\ (/\ Responds(r)
                 /\ reqs'[r].op = "exportMovies"
                 /\ Param(reqs'[r].body, "includeDeleted", <<>>) = <<"t", "r", "u", "e">>)
                =>  Elems(reqs'[r].out.movies) = DOMAIN db]_vars

PagedOps == {"getAllMovies", "getMoviesByGenre"}

C7_FavoritesStepByOne ==
    \A r \in Reqs :
        /\ Answered(r, "addToFavorites") /\ reqs[r].code = 200 =>
              /\ db[reqs[r].id].favorites = reqs[r].out.was + 1
              /\ reqs[r].out.favorites = reqs[r].out.was + 1
        /\ Answered(r, "removeFromFavorites") /\ reqs[r].code = 200 =>
              /\ db[reqs[r].id].favorites = Max(reqs[r].out.was - 1, 0)
              /\ reqs[r].out.favorites = Max(reqs[r].out.was - 1, 0)

\* two adds and one remove on a record that started at 0: the remove found 2
\* and left 1
C7_Witness ==
    \E r \in Reqs :
        /\ Answered(r, "removeFromFavorites")
        /\ reqs[r].code = 200
        /\ reqs[r].out.was = 2
        /\ db[reqs[r].id].favorites = 1

\* C8: the engagement counters of every stored record are at least 0
C8_CountersNonNegative ==
    \A i \in DOMAIN db :
        /\ Count(db[i], "viewCount") >= 0
        /\ Count(db[i], "favorites") >= 0
        /\ Count(db[i], "watchlistCount") >= 0

\* C9: an updateMovie request for an identifier that is absent or deleted is
\* not answered with success and leaves the collection as it was
C9_UpdateNotFoundNoEffect ==
    [][\A r \in Reqs :
          (/\ Responds(r)
           /\ reqs'[r].op = "updateMovie"
           /\ ~Stored(reqs'[r].id) \/ Deleted(reqs'[r].id))
          => /\ reqs'[r].code # 200
             /\ db' = db]_vars

\* C10: an updateMovie request with a title or a year, after which the record
\* would have the title and year of another record that is not deleted, is
\* answered 409 and writes nothing
C10_DuplicateUpdateRejected ==
    [][\A r \in Reqs :
          LET id == reqs'[r].id
              b == Restrict(reqs'[r].body, {"title", "year"})
          IN  (/\ Responds(r)
               /\ reqs'[r].op = "updateMovie"
               /\ b # Null
               /\ Stored(id) /\ ~Deleted(id)
               /\ \E j \in DOMAIN db \ {id} :
                     db[j].status # "deleted" /\ SameKey(Merge(db[id], b), db[j]))
              => /\ reqs'[r].code = 409
                 /\ db' = db]_vars

ActiveIds == {i \in DOMAIN db : db[i].status = "active"}

\* C11: a list request with a decade, with or without a year, returns the
\* active records whose year lies in [decade, decade + 9]
C11_DecadeReplacesYear ==
    \A r \in Reqs : \A d \in QueryDecades :
        (/\ Answered(r, "getAllMovies")
         /\ \/ reqs[r].body = [decade |-> Decimal(d)]
            \/ \E y \in QueryYears : reqs[r].body = [decade |-> Decimal(d), year |-> Decimal(y)])
        => /\ reqs[r].code = 200
           /\ Elems(reqs[r].out.movies) =
                 {i \in ActiveIds : db[i].year >= d /\ db[i].year <= d + 9}

\* decade 1990 with year 1985 on a collection that holds a record of 1985
\* and one of the nineties: the latter is returned
C11_Witness ==
    \E r \in Reqs :
        /\ Answered(r, "getAllMovies")
        /\ reqs[r].body = [decade |-> Decimal(1990), year |-> Decimal(1985)]
        /\ \E i \in ActiveIds : db[i].year = 1985
        /\ reqs[r].out.movies # <<>>

\* the summary of a bulk import after this step
ResultsAfter(r) ==
    IF reqs'[r].pc = "done" THEN reqs'[r].out ELSE reqs'[r].loc.results

\* C12: a bulk import that has candidates is answered 200 with
\* imported + skipped + errors equal to the number of candidates and one
\* error detail per error, and the duplicate check of a candidate that has
\* the title and year of a record that is not deleted, without overwrite,
\* counts it as skipped
C12_ImportCountsEveryCandidate ==
    [][\A r \in Reqs :
          /\ (/\ Responds(r)
              /\ reqs'[r].op = "bulkImportMovies"
              /\ reqs[r].op = "bulkImportMovies" /\ reqs[r].pc # "done")
             => /\ reqs'[r].code = 200
                /\ LET res == reqs'[r].out
                   IN  /\ res.imported + res.skipped + res.errors = Len(reqs[r].loc.items)
                       /\ Len(res.errorDetails) = res.errors
          /\ (/\ At(r, "bulkImportMovies", "findOne")
              /\ reqs'[r] # reqs[r]
              /\ ~ImportOverwrite(reqs[r].body)
              /\ LET item == reqs[r].loc.items[reqs[r].loc.idx]
                 IN  /\ item # Null
                     /\ \E i \in DOMAIN db : db[i].status # "deleted" /\ SameKey(db[i], item))
             => /\ reqs'[r].pc # "write"
                /\ reqs'[r].code \in {0, 200}
                /\ ResultsAfter(r).skipped = reqs[r].loc.results.skipped + 1]_vars

RecordOps == {"createMovie", "updateMovie", "getMovieById"}

\* C13: every rating a response carries has one decimal place: a multiple of
\* 100 thousandths
C13_RatingsRounded ==
    \A r \in Reqs :
        /\ (reqs[r].pc = "done" /\ reqs[r].op \in PagedOps /\ reqs[r].code = 200) =>
              \A k \in 1..Len(reqs[r].out.ratings) :
                  Has(reqs[r].out.ratings[k], "rating") =>
                      reqs[r].out.ratings[k].rating % 100 = 0
        /\ (/\ reqs[r].pc = "done" /\ reqs[r].op \in RecordOps
            /\ reqs[r].code \in {200, 201}) =>
              (Has(reqs[r].out.movie, "rating") => reqs[r].out.movie.rating % 100 = 0)

\* record a comes no later than record b in the order the sort key names
InOrder(a, b, key) ==
    LET byTitle == CompareStr(a.title, b.title) <= 0
    IN  CASE key = "year" -> a.year > b.year \/ (a.year = b.year /\ byTitle)
          [] key = "rating" ->
                \/ a.rating > b.rating
                \/ a.rating = b.rating /\ a.votes > b.votes
                \/ a.rating = b.rating /\ a.votes = b.votes /\ byTitle
          [] key = "popularity" ->
                \/ a.viewCount > b.viewCount
                \/ a.viewCount = b.viewCount /\ a.favorites > b.favorites
                \/ a.viewCount = b.viewCount /\ a.favorites = b.favorites /\ byTitle
          [] key = "latest" -> a.createdAt >= b.createdAt
          [] key = "runtime" -> a.runtime > b.runtime \/ (a.runtime = b.runtime /\ byTitle)
          [] OTHER -> byTitle

\* C14: a list request with a sort key, or none, is answered 200 with every
\* active record, each record no later than the next in the order of the key
C14_SortOrders ==
    \A r \in Reqs :
        (Answered(r, "getAllMovies") /\ reqs[r].body \in SortBodies)
        => LET m == reqs[r].out.movies
               key == Param(reqs[r].body, "sortBy", "none")
           IN  /\ reqs[r].code = 200
               /\ Elems(m) = ActiveIds
               /\ \A k \in 1..(Len(m) - 1) : InOrder(db[m[k]], db[m[k + 1]], key)

\* sortBy=rating on records of equal rating: the one with more votes is first
C14_Witness ==
    \E r \in Reqs :
        /\ Answered(r, "getAllMovies")
        /\ reqs[r].body = [sortBy |-> "rating"]
        /\ Len(reqs[r].out.movies) >= 2
        /\ LET a == db[reqs[r].out.movies[1]]
               b == db[reqs[r].out.movies[2]]
           IN  a.rating = b.rating /\ a.votes > b.votes
                  /\ CompareStr(a.title, b.title) > 0

\* C15: two pages of the same request on an unchanged collection, answered
\* one after the other, have no record in common
C15_PagesDisjoint ==
    [][\A r \in Reqs :
          (/\ Responds(r)
           /\ reqs[r].pc = "done"
           /\ reqs[r].op \in PagedOps /\ reqs'[r].op = reqs[r].op
           /\ reqs[r].code = 200 /\ reqs'[r].code = 200
           /\ Has(reqs[r].body, "page") /\ Has(reqs'[r].body, "page")
           /\ reqs[r].body.page # reqs'[r].body.page
           /\ [reqs[r].body EXCEPT !.page = <<>>] = [reqs'[r].body EXCEPT !.page = <<>>]
           /\ db' = db)
          => Elems(reqs[r].out.movies) \cap Elems(reqs'[r].out.movies) = {}]_vars

\* C16: a list request whose year is not an integer is answered 200 with
\* every active record, as without the year
C16_BadYearIgnored ==
    \A r \in Reqs :
        (Answered(r, "getAllMovies") /\ \E y \in BadYears : reqs[r].body = [year |-> y])
        => /\ reqs[r].code = 200
           /\ Elems(reqs[r].out.movies) = ActiveIds

\* C17: a list or by-genre request whose page or limit is not a number is
\* answered 200, with a page of at least 1 and a limit within 1..50
C17_BadPagingNormalized ==
    \A r \in Reqs :
        (/\ reqs[r].pc = "done" /\ reqs[r].op \in PagedOps
         /\ \E x \in BadNumbers : \/ Has(reqs[r].body, "page") /\ reqs[r].body.page = x
                                  \/ Has(reqs[r].body, "limit") /\ reqs[r].body.limit = x)
        => /\ reqs[r].code = 200
           /\ reqs[r].out.pagination.currentPage >= 1
           /\ reqs[r].out.pagination.limit \in 1..50

\* the text occurs in the string, letter case apart
Contains(str, text) ==
    \E i \in 1..(Len(str) - Len(text) + 1) :
        LowerStr(SubSeq(str, i, i + Len(text) - 1)) = LowerStr(text)

\* C18: a list request that searches a text with regular-expression
\* characters is answered 200 with the active records that contain the text
\* in the title, the plot, the director, a cast entry or a genre
C18_SearchIsLiteral ==
    \A r \in Reqs : \A x \in SpecialSearches :
        (Answered(r, "getAllMovies") /\ reqs[r].body = [search |-> x])
        => /\ reqs[r].code = 200
           /\ Elems(reqs[r].out.movies) =
                 {i \in ActiveIds :
                     \/ Contains(db[i].title, x)
                     \/ Has(db[i], "plot") /\ Contains(db[i].plot, x)
                     \/ Has(db[i], "director") /\ Contains(db[i].director, x)
                     \/ \E c \in Elems(db[i].cast) : Contains(c, x)
                     \/ \E g \in Elems(db[i].genres) : Contains(g, x)}

\* C19: a getMovieById request is answered 200 or 404 and never with an
\* error, and its response is ready whatever became of the save of the view
\* increment
C19_ViewNeverFailsResponse ==
    \A r \in Reqs :
        /\ Answered(r, "getMovieById") => reqs[r].code \in {200, 404}
        /\ At(r, "getMovieById", "related") => ENABLED GetByIdRelated(r)

\* a request answered 200 whose view increment was rejected: nothing is
\* pending for the record and the stored count is below the count returned
C19_Witness ==
    \E r \in Reqs :
        /\ Answered(r, "getMovieById")
        /\ reqs[r].code = 200
        /\ \A p \in pending : p.id # reqs[r].id
        /\ Count(db[reqs[r].id], "viewCount") < reqs[r].out.movie.viewCount

\* C20: the related records of a getMovieById answered 200 are at most 6,
\* are not the requested record, are active, and share a genre or the
\* director with the requested record
C20_RelatedShareGenreOrDirector ==
    \A r \in Reqs :
        (Answered(r, "getMovieById") /\ reqs[r].code = 200)
        => LET movie == reqs[r].out.movie
               rel == reqs[r].out.relatedMovies
           IN  /\ Cardinality(rel) <= 6
               /\ reqs[r].id \notin rel
               /\ \A i \in rel :
                     /\ db[i].status = "active"
                     /\ \/ Elems(db[i].genres) \cap Elems(movie.genres) # {}
                        \/ /\ Has(movie, "director") /\ Has(db[i], "director")
                           /\ db[i].director = movie.director

\* C21: an export is answered 200 with every stored record, each once, when
\* includeDeleted is the text 'true', and with the records whose status is
\* active, each once, when includeDeleted is absent or any other text
C21_ExportScope ==
    \A r \in Reqs :
        Answered(r, "exportMovies")
        => LET m == reqs[r].out.movies
               all == Param(reqs[r].body, "includeDeleted", <<>>) = <<"t", "r", "u", "e">>
           IN  /\ reqs[r].code = 200
               /\ Elems(m) = IF all THEN DOMAIN db ELSE ActiveIds
               /\ Len(m) = Cardinality(Elems(m))

\* an export with includeDeleted=false of a collection that holds an active,
\* an inactive and a deleted record returned the active record alone
C21_Witness ==
    \E r \in Reqs :
        /\ Answered(r, "exportMovies")
        /\ reqs[r].body = [includeDeleted |-> <<"f", "a", "l", "s", "e">>]
        /\ \E i \in DOMAIN db : db[i].status = "deleted"
        /\ \E i \in DOMAIN db : db[i].status = "inactive"
        /\ Len(reqs[r].out.movies) = 1

\* the stored records that are not deleted and have the title, letter case
\* apart, and the year of the candidate
ImportTwins(item) ==
    {i \in DOMAIN db : db[i].status # "deleted" /\ SameKey(db[i], item)}

\* C22: in a bulk import, a candidate with the title and year of a record
\* that is not deleted is, without overwrite, skipped and writes nothing; with
\* overwrite it changes no other record and adds none; a valid candidate
\* without such a record goes on to the insert, which adds exactly one record
\* and changes no other
C22_ImportSkipOverwriteInsert ==
    [][\A r \in Reqs :
          (/\ reqs[r].op = "bulkImportMovies"
           /\ reqs[r].pc \in {"findOne", "write"}
           /\ reqs'[r] # reqs[r]
           /\ reqs[r].loc.items[reqs[r].loc.idx] # Null)
          => LET item == reqs[r].loc.items[reqs[r].loc.idx]
                 twins == ImportTwins(item)
                 overwrite == ImportOverwrite(reqs[r].body)
             IN  /\ (twins # {} /\ ~overwrite) =>
                        /\ db' = db
                        /\ reqs'[r].pc # "write"
                 /\ (twins # {} /\ overwrite) =>
                        /\ DOMAIN db' = DOMAIN db
                        /\ \A i \in DOMAIN db \ twins : db'[i] = db[i]
                 /\ (twins = {} /\ ValidPaths(NewMovie(item))) =>
                        IF reqs[r].pc = "findOne"
                        THEN reqs'[r].pc = "write" /\ reqs'[r].loc.existing = 0
                        ELSE /\ Cardinality(DOMAIN db') = Cardinality(DOMAIN db) + 1
                             /\ \A i \in DOMAIN db : db'[i] = db[i]]_vars

\* C23: no two stored records that are not deleted have the same title,
\* letter case apart, and the same year
C23_NoTwoAlike ==
    \A i, j \in DOMAIN db :
        (i # j /\ db[i].status # "deleted" /\ db[j].status # "deleted")
        => ~SameKey(db[i], db[j])

\* the addToFavorites requests for the record that were answered 200
SuccessfulAdds(id) ==
    {r \in Reqs : Answered(r, "addToFavorites") /\ reqs[r].code = 200 /\ reqs[r].id = id}

\* every request received so far is a successful add for the record
OnlyAdds(id) == Cardinality(SuccessfulAdds(id)) = started - RaceStart

\* C24 as stated: after n successful adds for a record and no other request,
\* its stored favorites counter is its initial value plus n
C24_EveryAddCounts ==
    \A id \in DOMAIN db :
        OnlyAdds(id) =>
            db[id].favorites = Defaults.favorites + Cardinality(SuccessfulAdds(id))

\* C24: every successful add reports the value it read plus one; after
\* n >= 1 successful adds for a record and no other request its stored
\* favorites counter is at least its initial value plus one and at most its
\* initial value plus n, and it is the initial value plus n when every add
\* read a different value
C24_AddsCountAtLeastOnce ==
    \A id \in DOMAIN db :
        LET adds == SuccessfulAdds(id)
            n == Cardinality(adds)
            read == {reqs[r].out.was : r \in adds}
        IN  /\ \A r \in adds : reqs[r].out.favorites = reqs[r].out.was + 1
            /\ (OnlyAdds(id) /\ n >= 1) =>
                   /\ db[id].favorites >= Defaults.favorites + 1
                   /\ db[id].favorites <= Defaults.favorites + n
                   /\ Cardinality(read) = n => db[id].favorites = Defaults.favorites + n

\* two adds for one record that both read 0 were both answered 200 and the
\* stored counter is 1
C24_Witness ==
    \E id \in DOMAIN db :
        /\ Cardinality(SuccessfulAdds(id)) = 2
        /\ \A r \in SuccessfulAdds(id) : reqs[r].out.was = 0
        /\ db[id].favorites = 1

\* C25: an updateMovie request for a stored record that is not deleted is
\* answered 409 only if another record that is not deleted has the title,
\* letter case apart, and the year the updated record would have
C25_ConflictOnlyIfReal ==
    [][\A r \in Reqs :
          LET id == reqs'[r].id
              b == Restrict(reqs'[r].body, {"title", "year"})
          IN  (/\ Responds(r)
               /\ reqs'[r].op = "updateMovie"
               /\ reqs'[r].code = 409
               /\ Stored(id) /\ ~Deleted(id))
              => \E j \in DOMAIN db \ {id} :
                    db[j].status # "deleted" /\ SameKey(Merge(db[id], b), db[j])]_vars

RecordReadOps == {"getMovieById", "addToFavorites", "removeFromFavorites"}

\* C26: a getMovieById, addToFavorites or removeFromFavorites request for an
\* identifier that is not stored, or whose record is deleted, is answered 404
\* at once, changes no stored record and issues no save
C26_NotFoundNoEffect ==
    [][\A r \in Reqs :
          (/\ Arrives(r)
           /\ reqs'[r].op \in RecordReadOps
           /\ ~Stored(reqs'[r].id) \/ Deleted(reqs'[r].id))
          => /\ reqs'[r].pc = "done"
             /\ reqs'[r].code = 404
             /\ db' = db
             /\ pending' = pending]_vars

\* an addToFavorites request for a deleted record whose counter is 1 was
\* answered 404 and the counter is still 1
C26_Witness ==
    \E r \in Reqs :
        /\ Answered(r, "addToFavorites")
        /\ reqs[r].code = 404
        /\ Deleted(reqs[r].id)
        /\ db[reqs[r].id].favorites = 1

\* the record is the same before and after the step but for the paths
Except(i, paths) ==
    Restrict(db'[i], DOMAIN db'[i] \ paths) = Restrict(db[i], DOMAIN db[i] \ paths)

\* C27: the save of a view increment changes the viewCount and the update
\* timestamp of its record and nothing else, a favorite request answered 200
\* changes the favorites and the update timestamp of its record and nothing
\* else, and neither changes another record
C27_CountersChangeOnlyThemselves ==
    [][/\ (pending' # pending /\ pending' \subseteq pending) =>
             /\ DOMAIN db' = DOMAIN db
             /\ \A p \in pending \ pending' :
                    /\ Except(p.id, {"viewCount", "updatedAt"})
                    /\ \A i \in DOMAIN db \ {p.id} : db'[i] = db[i]
       /\ \A r \in Reqs :
             (Responds(r) /\ reqs'[r].op \in FavoriteOps /\ reqs'[r].code = 200) =>
                /\ DOMAIN db' = DOMAIN db
                /\ Except(reqs'[r].id, {"favorites", "updatedAt"})
                /\ \A i \in DOMAIN db \ {reqs'[r].id} : db'[i] = db[i]]_vars

\* the parameters of a list or by-genre request that select no records
PagingParams == {"sortBy", "page", "limit"}

DramaIds == {i \in ActiveIds : \E g \in Elems(db[i].genres) : LowerStr(g) = LowerStr(Drama)}

=============================================================================
